---- MODULE Spec2Model ----
(***************************************************************************)
(* Model of wrapped_py/__init__.py: the cover resolver fetch_image and the *)
(* grid compositor create_review_image.                                    *)
(*                                                                         *)
(* A key is a sequence of one-character strings, "|" being the separator.  *)
(* A URL is a string; None (Python's None for cover_url) is its own value. *)
(* An image is identified by the URL it was fetched and decoded from.      *)
(* Every network request, diagnostic line and sleep of one fetch_image     *)
(* call is appended, in program order, to the call's trace.                *)
(***************************************************************************)
EXTENDS Integers, Sequences, FiniteSets, TLC

VARIABLES
    \* ---- create_review_image ----
    albums,     \* the input mapping, in insertion order: Seq([key, url])
    pc,         \* position in create_review_image ("standalone": not running)
    idx,        \* 1-based position of the entry of the current iteration
    width,      \* canvas width  (0 before the layout is computed)
    height,     \* canvas height (0 before the layout is computed)
    x,          \* horizontal cursor
    y,          \* vertical cursor
    img,        \* the image returned by the last fetch_image call
    canvas,     \* the drawing operations applied to the canvas, in order
    saved,      \* TRUE once background.save has run
    err,        \* the exception that left create_review_image, or "none"
    absorbed,   \* number of entries whose resolver call absorbed a failure
    run,        \* 1 for the first render of the input, 2 for a second one
    prev,       \* dimensions and canvas of the completed first render
    \* ---- fetch_image ----
    fpc,        \* position in fetch_image ("idle": no call in progress)
    cover_url,  \* the url argument as the caller passed it
    url,        \* parameter url (reassigned on line 75)
    album,      \* parameter album: [some, s]
    retries,    \* parameter retries
    attempt,    \* loop variable of line 42
    trace,      \* requests, diagnostic lines and sleeps of this call
    ret,        \* the image returned ("none" until the call returns)
    ferr        \* the exception that left fetch_image, or "none"

cvars == <<albums, pc, idx, width, height, x, y, img, canvas, saved, err,
           absorbed, run, prev>>
fvars == <<fpc, cover_url, url, album, retries, attempt, trace, ret, ferr>>
vars == <<albums, pc, idx, width, height, x, y, img, canvas, saved, err,
          absorbed, run, prev, fpc, cover_url, url, album, retries, attempt, trace,
          ret, ferr>>

----------------------------------------------------------------------------
\* Program constants (lines 10-19, 118, 136, 177)

PLACEHOLDER_URL == "https://via.placeholder.com/1200x1200?text=No+Cover"
SEARCH_URL == "https://musicbrainz.org/ws/2/release/?query="
COVER_URL == "https://coverartarchive.org/release/<mbid>/front"
RETRIES == 3
IMAGE_WIDTH == 200
IMAGE_HEIGHT == 200
PADDING == 20
NUM_COLUMNS == 5
TITLE_BAND == 120
CAPTION_BAND == 40

\* Bounds of the model
MaxAlbums == 11
MaxRetries == 3

----------------------------------------------------------------------------
\* Values

None == "None"
DIRECT_URL == "http://x/cover.png"
Urls == {None, DIRECT_URL, PLACEHOLDER_URL}

NoneAlbum == [some |-> FALSE, s |-> <<>>]
Some(k) == [some |-> TRUE, s |-> k]

Letters == <<"a", "b", "c", "d", "e", "f", "g", "h", "i", "j", "k", "l", "m">>
GoodKey(i) == <<Letters[i], "|", "z">>
\* keys tried at the one free position of a collection, and by direct calls
TestKeys == { <<"x", "|", "y">>, <<"|">>, <<>>, <<"x">>, <<"x", "y">>,
              <<"x", "|", "y", "|", "w">> }

\* str.split("|"): the parts between separators; "" splits into [""]
RECURSIVE Split(_)
Split(s) ==
    IF s = <<>> THEN << <<>> >>
    ELSE IF Head(s) = "|" THEN << <<>> >> \o Split(Tail(s))
    ELSE LET r == Split(Tail(s))
         IN  << <<Head(s)>> \o Head(r) >> \o Tail(r)

----------------------------------------------------------------------------
\* fetch_image (lines 27-101)

\* the events of a trace: a request (the code site, the URL, the attempt it
\* belongs to, what came back), a printed line, a time.sleep
Req(what, target, at, res) ==
    [ev |-> "req", what |-> what, url |-> target, at |-> at, res |-> res, val |-> 0]
Log(what, at) ==
    [ev |-> "log", what |-> what, url |-> "", at |-> at, res |-> "", val |-> 0]
Slept(at, dur) ==
    [ev |-> "sleep", what |-> "sleep", url |-> "", at |-> at, res |-> "", val |-> dur]

\* line 34: `album.split("|") if album else (None, None)` unpacked into two
\* names: the unpacking raises ValueError unless the split has two parts;
\* a None or empty album is falsy and is not split at all
UnpackFails(a) == a.some /\ a.s # <<>> /\ Len(Split(a.s)) # 2

\* a bug: the catalog is searched whether or not a URL was given
EntersCatalogAnyUrl(u, a) == a.some

\* line 36
EntersCatalog(u, a) == u = None /\ a.some

\* a bug: the loop runs one attempt too many
HasNextAttemptOffByOne(at, r) == at < r

\* line 42: range(retries) has a next value after `at`
HasNextAttempt(at, r) == at + 1 < r

\* a bug: the backoff is slept after the final attempt too
ShouldSleepAlways(at, r) == at < r

\* line 65
ShouldSleep(at, r) == at < r - 1

\* line 66
Backoff(at) == 2 ^ at

\* What one catalog search can do (lines 44-48).  A body that is not JSON
\* makes response.json() raise an error that is a RequestException in
\* requests >= 2.27 and a plain ValueError before; both are kept.
SearchOutcomes == {"net_error", "bad_json_req", "bad_json_val", "no_key", "empty", "found"}
SearchException(o) ==
    CASE o \in {"net_error", "bad_json_req"} -> "RequestException"
      [] o \in {"bad_json_val", "no_key"} -> "Exception"
      [] OTHER -> "none"

\* a bug: the guard of line 48 passes an empty candidate list too
ReleasesAnyList(o) == o \in {"found", "empty"}

\* line 48: `if data["releases"]:` on a response that parsed
ReleasesNonEmpty(o) == o = "found"

\* What the cover-by-identifier fetch and its decode can do (lines 51-57)
CoverOutcomes == {"net_error", "bad_bytes", "image"}
CoverException(o) ==
    CASE o = "net_error" -> "RequestException"
      [] o = "bad_bytes" -> "Exception"
      [] OTHER -> "none"

\* What a fetch and decode outside the loop can do (lines 79-81, 99-100).
\* "image" stands for bytes that Image.open accepts and that resize can load.
FetchOutcomes == {"net_error", "bad_bytes", "image"}
FetchException(o) ==
    CASE o = "net_error" -> "RequestException"
      [] o = "bad_bytes" -> "Exception"
      [] OTHER -> "none"

\* a bug: only the RequestException clause, so any other error escapes
CatalogHandlerHttpOnly(exc) ==
    CASE exc = "RequestException" -> "warn"
      [] OTHER -> "propagate"

\* lines 58 and 67: the except clause that takes an exception raised in the
\* try block of one attempt
CatalogHandler(exc) ==
    CASE exc = "RequestException" -> "warn"
      [] exc = "Exception" -> "nonhttp"
      [] OTHER -> "propagate"

\* lines 74-75
TargetUrl(u) == IF u = None THEN PLACEHOLDER_URL ELSE u

\* a bug: `except requests.exceptions.RequestException` on line 93
FetchHandlerHttpOnly(exc) ==
    CASE exc = "none" -> "none"
      [] exc = "RequestException" -> "fallback"
      [] OTHER -> "propagate"

\* line 93: `except Exception` around the fetch of lines 79-81
FetchHandler(exc) ==
    CASE exc = "none" -> "none"
      [] exc \in {"RequestException", "Exception"} -> "fallback"
      [] OTHER -> "propagate"

\* the control state after attempt `at` ended without returning
AfterAttempt(at, r) ==
    /\ attempt' = IF HasNextAttempt(at, r) THEN at + 1 ELSE at
    /\ fpc' = IF HasNextAttempt(at, r) THEN "search" ELSE "fetch"

\* lines 58-71: an exception of class exc leaves the try block of the
\* current attempt; tr is the trace up to the raise
Handle(exc, tr) ==
    CASE CatalogHandler(exc) = "warn" ->
            /\ trace' = Append(tr, Log("warn_catalog", attempt))
            /\ IF ShouldSleep(attempt, retries)
               THEN fpc' = "sleep" /\ attempt' = attempt
               ELSE AfterAttempt(attempt, retries)
            /\ UNCHANGED <<ret, ferr>>
      [] CatalogHandler(exc) = "nonhttp" ->
            /\ trace' = Append(tr, Log("nonhttp_catalog", attempt))
            /\ AfterAttempt(attempt, retries)
            /\ UNCHANGED <<ret, ferr>>
      [] OTHER ->
            /\ trace' = tr
            /\ fpc' = "raised"
            /\ ferr' = exc
            /\ UNCHANGED <<ret, attempt>>

\* lines 34-42: split the key, then enter the catalog loop or skip it
FetchImage_Split ==
    /\ fpc = "split"
    /\ IF UnpackFails(album)
       THEN /\ fpc' = "raised"
            /\ ferr' = "MalformedKey"
            /\ UNCHANGED attempt
       ELSE /\ ferr' = ferr
            /\ attempt' = 0
            /\ fpc' = IF EntersCatalog(url, album) /\ 0 < retries
                      THEN "search" ELSE "fetch"
    /\ UNCHANGED <<cover_url, url, album, retries, trace, ret>>
    /\ UNCHANGED cvars

\* lines 44-48: the catalog search of one attempt
FetchImage_Search ==
    /\ fpc = "search"
    /\ \E o \in SearchOutcomes :
         LET tr == Append(trace, Req("search", SEARCH_URL, attempt, o))
         IN  IF ReleasesNonEmpty(o)
             THEN /\ trace' = tr
                  /\ fpc' = "cover"
                  /\ UNCHANGED <<attempt, ret, ferr>>
             ELSE IF o = "empty"
             THEN /\ trace' = tr
                  /\ AfterAttempt(attempt, retries)
                  /\ UNCHANGED <<ret, ferr>>
             ELSE Handle(SearchException(o), tr)
    /\ UNCHANGED <<cover_url, url, album, retries>>
    /\ UNCHANGED cvars

\* lines 49-57: fetch the first candidate's front cover, print, decode
FetchImage_Cover ==
    /\ fpc = "cover"
    /\ \E o \in CoverOutcomes :
         LET tr == Append(trace, Req("cover", COVER_URL, attempt, o))
             found == Append(tr, Log("found_catalog", attempt))
         IN  IF o = "image"
             THEN /\ trace' = found
                  /\ ret' = COVER_URL
                  /\ fpc' = "returned"
                  /\ UNCHANGED <<attempt, ferr>>
             ELSE IF o = "bad_bytes"
             THEN Handle(CoverException(o), found)
             ELSE Handle(CoverException(o), tr)
    /\ UNCHANGED <<cover_url, url, album, retries>>
    /\ UNCHANGED cvars

\* line 66
FetchImage_Sleep ==
    /\ fpc = "sleep"
    /\ trace' = Append(trace, Slept(attempt, Backoff(attempt)))
    /\ AfterAttempt(attempt, retries)
    /\ UNCHANGED <<cover_url, url, album, retries, ret, ferr>>
    /\ UNCHANGED cvars

\* lines 74-98: fetch the given URL, or the placeholder when none was given
FetchImage_Fetch ==
    /\ fpc = "fetch"
    /\ url' = TargetUrl(url)
    /\ \E o \in FetchOutcomes :
         LET tr == Append(trace, Req("url", url', attempt, o))
             h == FetchHandler(FetchException(o))
         IN  CASE h = "none" ->
                  /\ trace' = Append(tr, Log(IF url' = PLACEHOLDER_URL
                                             THEN "placeholder_default"
                                             ELSE "found_url", attempt))
                  /\ ret' = url'
                  /\ fpc' = "returned"
                  /\ ferr' = ferr
               [] h = "fallback" ->
                  /\ trace' = tr \o <<Log("error_fetch", attempt),
                                      Log("defaulting", attempt)>>
                  /\ ret' = ret
                  /\ fpc' = "fallback"
                  /\ ferr' = ferr
               [] OTHER ->
                  /\ trace' = tr
                  /\ ret' = ret
                  /\ fpc' = "raised"
                  /\ ferr' = FetchException(o)
    /\ UNCHANGED <<cover_url, album, retries, attempt>>
    /\ UNCHANGED cvars

\* lines 99-101: the unguarded fetch of the placeholder
FetchImage_Fallback ==
    /\ fpc = "fallback"
    /\ \E o \in FetchOutcomes :
         /\ trace' = Append(trace, Req("fallback", PLACEHOLDER_URL, attempt, o))
         /\ IF o = "image"
            THEN /\ ret' = PLACEHOLDER_URL
                 /\ fpc' = "returned"
                 /\ ferr' = ferr
            ELSE /\ ret' = ret
                 /\ fpc' = "raised"
                 /\ ferr' = "PlaceholderUnreachable"
    /\ UNCHANGED <<cover_url, url, album, retries, attempt>>
    /\ UNCHANGED cvars

\* A direct call fetch_image(url, album, retries)
FetchArgs == {NoneAlbum} \cup {Some(k) : k \in TestKeys}

NoPrev == [width |-> 0, height |-> 0, canvas |-> <<>>, absorbed |-> FALSE]

FetchInit ==
    /\ albums = <<>>
    /\ pc = "standalone"
    /\ idx = 0
    /\ width = 0
    /\ height = 0
    /\ x = 0
    /\ y = 0
    /\ img = "none"
    /\ canvas = <<>>
    /\ saved = FALSE
    /\ err = "none"
    /\ absorbed = FALSE
    /\ run = 1
    /\ prev = NoPrev
    /\ fpc = "split"
    /\ cover_url \in Urls
    /\ url = cover_url
    /\ album \in FetchArgs
    /\ retries \in 0..MaxRetries
    /\ attempt = 0
    /\ trace = <<>>
    /\ ret = "none"
    /\ ferr = "none"

FetchNext ==
    \/ FetchImage_Split
    \/ FetchImage_Search
    \/ FetchImage_Cover
    \/ FetchImage_Sleep
    \/ FetchImage_Fetch
    \/ FetchImage_Fallback

FetchSpec == FetchInit /\ [][FetchNext]_vars

\* fetch_image runs in one thread whose every request returns or fails
\* (each has a timeout or an answer), so a call that can step does step
FetchFairSpec == FetchInit /\ [][FetchNext]_vars /\ WF_vars(FetchNext)

----------------------------------------------------------------------------
\* create_review_image (lines 111-182)

\* a bug: the row count rounded down
NumRowsFloor(n) == n \div NUM_COLUMNS

\* line 114
NumRows(n) == (n + NUM_COLUMNS - 1) \div NUM_COLUMNS

\* line 116
CanvasWidth == NUM_COLUMNS * IMAGE_WIDTH + (NUM_COLUMNS + 1) * PADDING

\* a bug: the 40 pixels of captions per row left out of the height
CanvasHeightNoCaption(rows) == rows * IMAGE_HEIGHT + (rows + 1) * PADDING + TITLE_BAND

\* lines 117-119
CanvasHeight(rows) == rows * (IMAGE_HEIGHT + CAPTION_BAND) + (rows + 1) * PADDING + TITLE_BAND

\* a bug: the row also wraps after a cell that got the placeholder
WrapsOnPlaceholder(nx, w) == nx + IMAGE_WIDTH + PADDING > w \/ img = PLACEHOLDER_URL

\* a bug: `>=` for `>`, so the row wraps one cell early
WrapsEarly(nx, w) == nx + IMAGE_WIDTH + PADDING >= w

\* line 174
Wraps(nx, w) == nx + IMAGE_WIDTH + PADDING > w

\* line 148: `artist_name, album_name = album.split("|")`
CaptionUnpackFails(k) == Len(Split(k)) # 2

\* the call frame of fetch_image is gone once the caller has its result
FrameGone ==
    /\ fpc' = "idle"
    /\ cover_url' = None
    /\ url' = None
    /\ album' = NoneAlbum
    /\ retries' = 0
    /\ attempt' = 0
    /\ trace' = <<>>
    /\ ret' = "none"
    /\ ferr' = "none"

Draw(op) == [op |-> op, i |-> idx, x |-> x, y |-> y]

\* a diagnostic line of a failure that fetch_image absorbed
IsFailureLine(e) ==
    e.ev = "log" /\ e.what \in {"warn_catalog", "nonhttp_catalog", "error_fetch"}

\* lines 113-121: the layout and the canvas
Layout ==
    /\ pc = "start"
    /\ width' = CanvasWidth
    /\ height' = CanvasHeight(NumRows(Len(albums)))
    /\ canvas' = <<>>
    /\ pc' = "title"
    /\ UNCHANGED <<albums, idx, x, y, img, saved, err, absorbed, run, prev>>
    /\ UNCHANGED fvars

\* lines 122-141: the title, then the cursor at the first cell
DrawTitle ==
    /\ pc = "title"
    /\ canvas' = Append(canvas, Draw("title"))
    /\ x' = PADDING
    /\ y' = TITLE_BAND + PADDING
    /\ pc' = "loop"
    /\ UNCHANGED <<albums, idx, width, height, img, saved, err, absorbed, run, prev>>
    /\ UNCHANGED fvars

\* lines 143-144: the next entry of albums.items(), and the call of
\* fetch_image(cover_url, album) with the default retries; or the loop's end
Iterate ==
    /\ pc = "loop"
    /\ IF idx < Len(albums)
       THEN /\ idx' = idx + 1
            /\ pc' = "fetching"
            /\ fpc' = "split"
            /\ cover_url' = albums[idx'].url
            /\ url' = cover_url'
            /\ album' = Some(albums[idx'].key)
            /\ retries' = RETRIES
            /\ attempt' = 0
            /\ trace' = <<>>
            /\ ret' = "none"
            /\ ferr' = "none"
       ELSE /\ pc' = "save"
            /\ UNCHANGED idx
            /\ UNCHANGED fvars
    /\ UNCHANGED <<albums, width, height, x, y, img, canvas, saved, err, absorbed, run, prev>>

\* lines 144-146: fetch_image returned; resize and paste at the cursor
Paste ==
    /\ pc = "fetching"
    /\ fpc = "returned"
    /\ img' = ret
    /\ canvas' = Append(canvas, Draw("paste"))
    /\ absorbed' = (absorbed \/ \E k \in 1..Len(trace) : IsFailureLine(trace[k]))
    /\ pc' = "split"
    /\ FrameGone
    /\ UNCHANGED <<albums, idx, width, height, x, y, saved, err, run, prev>>

\* line 144: fetch_image raised; nothing in create_review_image catches it
Abort ==
    /\ pc = "fetching"
    /\ fpc = "raised"
    /\ err' = ferr
    /\ pc' = "aborted"
    /\ FrameGone
    /\ UNCHANGED <<albums, idx, width, height, x, y, img, canvas, saved, absorbed, run, prev>>

\* line 148
SplitKey ==
    /\ pc = "split"
    /\ IF CaptionUnpackFails(albums[idx].key)
       THEN /\ err' = "MalformedKey"
            /\ pc' = "aborted"
       ELSE /\ err' = err
            /\ pc' = "artist"
    /\ UNCHANGED <<albums, idx, width, height, x, y, img, canvas, saved, absorbed, run, prev>>
    /\ UNCHANGED fvars

\* a bug: the album line drawn first
CaptionOrderSwapped == <<"album", "artist">>

\* lines 150-170: the caption drawn first (lines 150-159) and second (161-170)
CaptionOrder == <<"artist", "album">>

\* lines 150-159
DrawArtist ==
    /\ pc = "artist"
    /\ canvas' = Append(canvas, Draw(CaptionOrder[1]))
    /\ pc' = "album"
    /\ UNCHANGED <<albums, idx, width, height, x, y, img, saved, err, absorbed, run, prev>>
    /\ UNCHANGED fvars

\* lines 161-170
DrawAlbum ==
    /\ pc = "album"
    /\ canvas' = Append(canvas, Draw(CaptionOrder[2]))
    /\ pc' = "advance"
    /\ UNCHANGED <<albums, idx, width, height, x, y, img, saved, err, absorbed, run, prev>>
    /\ UNCHANGED fvars

\* lines 172-177
Advance ==
    /\ pc = "advance"
    /\ LET nx == x + IMAGE_WIDTH + PADDING
       IN  IF Wraps(nx, width)
           THEN /\ x' = PADDING
                /\ y' = y + IMAGE_HEIGHT + PADDING + CAPTION_BAND
           ELSE /\ x' = nx
                /\ y' = y
    /\ pc' = "loop"
    /\ UNCHANGED <<albums, idx, width, height, img, canvas, saved, err, absorbed, run, prev>>
    /\ UNCHANGED fvars

\* lines 180-182
Save ==
    /\ pc = "save"
    /\ saved' = TRUE
    /\ pc' = "done"
    /\ UNCHANGED <<albums, idx, width, height, x, y, img, canvas, err, absorbed, run, prev>>
    /\ UNCHANGED fvars

\* The album collections rendered: n entries with well-formed, distinct keys
\* and a direct URL, of which at most one is replaced by a free entry.
Entry(k, u) == [key |-> k, url |-> u]
Plain(n) == [i \in 1..n |-> Entry(GoodKey(i), DIRECT_URL)]
Variants(n) ==
    {[Plain(n) EXCEPT ![p] = Entry(k, u)] : p \in 1..n, k \in TestKeys, u \in Urls}
Inputs == UNION {{Plain(n)} \cup Variants(n) : n \in 0..MaxAlbums}

Init ==
    /\ albums \in Inputs
    /\ pc = "start"
    /\ idx = 0
    /\ width = 0
    /\ height = 0
    /\ x = 0
    /\ y = 0
    /\ img = "none"
    /\ canvas = <<>>
    /\ saved = FALSE
    /\ err = "none"
    /\ absorbed = FALSE
    /\ run = 1
    /\ prev = NoPrev
    /\ fpc = "idle"
    /\ cover_url = None
    /\ url = None
    /\ album = NoneAlbum
    /\ retries = 0
    /\ attempt = 0
    /\ trace = <<>>
    /\ ret = "none"
    /\ ferr = "none"

Next ==
    \/ Layout
    \/ DrawTitle
    \/ Iterate
    \/ Paste
    \/ Abort
    \/ SplitKey
    \/ DrawArtist
    \/ DrawAlbum
    \/ Advance
    \/ Save
    \/ FetchImage_Split
    \/ FetchImage_Search
    \/ FetchImage_Cover
    \/ FetchImage_Sleep
    \/ FetchImage_Fetch
    \/ FetchImage_Fallback

Spec == Init /\ [][Next]_vars

\* create_review_image called a second time with the same mapping, once the
\* first call has completed (main run again on the same album.json)
Rerun ==
    /\ pc = "done"
    /\ run = 1
    /\ prev' = [width |-> width, height |-> height, canvas |-> canvas,
                absorbed |-> absorbed]
    /\ run' = 2
    /\ pc' = "start"
    /\ idx' = 0
    /\ width' = 0
    /\ height' = 0
    /\ x' = 0
    /\ y' = 0
    /\ img' = "none"
    /\ canvas' = <<>>
    /\ saved' = FALSE
    /\ absorbed' = FALSE
    /\ UNCHANGED <<albums, err>>
    /\ UNCHANGED fvars

TwiceNext ==
    \/ Layout
    \/ DrawTitle
    \/ Iterate
    \/ Paste
    \/ Abort
    \/ SplitKey
    \/ DrawArtist
    \/ DrawAlbum
    \/ Advance
    \/ Save
    \/ Rerun
    \/ FetchImage_Split
    \/ FetchImage_Search
    \/ FetchImage_Cover
    \/ FetchImage_Sleep
    \/ FetchImage_Fetch
    \/ FetchImage_Fallback

TwiceSpec == Init /\ [][TwiceNext]_vars

----------------------------------------------------------------------------
\* Properties

\* readings of a trace
Indices(P(_)) == {k \in 1..Len(trace) : P(trace[k])}
IsCatalogReq(e) == e.ev = "req" /\ e.what \in {"search", "cover"}
IsSearchReq(e) == e.ev = "req" /\ e.what = "search"
IsOutsideReq(e) == e.ev = "req" /\ e.what \in {"url", "fallback"}
IsPlaceholderReq(e) == e.ev = "req" /\ e.url = PLACEHOLDER_URL
IsReq(e) == e.ev = "req"
IsSleep(e) == e.ev = "sleep"
IsWarn(e) == e.ev = "log" /\ e.what = "warn_catalog"
IsCatalogLine(e) ==
    e.ev = "log" /\ e.what \in {"found_catalog", "warn_catalog", "nonhttp_catalog"}
IsErrorFetchLine(e) == e.ev = "log" /\ e.what = "error_fetch"

RECURSIVE Pow2(_)
Pow2(k) == IF k = 0 THEN 1 ELSE 2 * Pow2(k - 1)

\* the least r with 5 r >= n
CeilDiv5(n) == CHOOSE r \in 0..n : 5 * r >= n /\ \A q \in 0..n : 5 * q >= n => r <= q

Running == fpc \in {"split", "search", "cover", "sleep", "fetch", "fallback"}
Finished == fpc \in {"returned", "raised"}
CatalogOver == fpc \in {"fetch", "fallback", "returned"} \/ (fpc = "raised" /\ ferr # "MalformedKey")
TwoParts(a) == a.some /\ Len(Split(a.s)) = 2
HasPipe(k) == \E j \in 1..Len(k) : k[j] = "|"

\* C1: once the layout is computed the canvas is 1120 wide and
\* rows*240 + (rows+1)*20 + 120 high with rows = ceil(n/5) (1120x140 for no
\* album, 1120x400 for one); it is computed before anything is drawn or
\* resolved, and never changes during the render.
C1_SizeFixed ==
    LET n == Len(albums)
        rows == CeilDiv5(n)
    IN  /\ (pc = "start" => canvas = <<>> /\ fpc = "idle")
        /\ (pc \notin {"start", "standalone"} =>
              /\ width = 1120
              /\ height = rows * 240 + (rows + 1) * 20 + 120
              /\ (n = 0 => height = 140)
              /\ (n = 1 => height = 400))
C1_SizeNeverChanges ==
    pc \notin {"start", "standalone"} => width' = width /\ height' = height
C1_CanvasSize == [](C1_SizeFixed) /\ [][C1_SizeNeverChanges]_vars
C1_Witness ==
    pc = "done" /\ Len(albums) = 6 /\ width = 1120 /\ height = 660 /\ Len(canvas) > 1

\* C2: a call with a non-null cover_url never requests the catalog search
\* or the cover-by-identifier endpoint, and when its direct fetch and decode
\* succeed the image returned is the one fetched from that URL.
C2_DirectUrlSkipsCatalog ==
    cover_url # None =>
        /\ Indices(IsCatalogReq) = {}
        /\ (fpc = "returned" /\ Indices(IsErrorFetchLine) = {} =>
              /\ ret = cover_url
              /\ \E k \in Indices(IsReq) : trace[k].url = cover_url /\ trace[k].res = "image")
C2_Witness ==
    /\ cover_url = DIRECT_URL
    /\ TwoParts(album)
    /\ fpc = "returned"
    /\ ret = DIRECT_URL
    /\ Len(trace) = 2

\* C3: with cover_url = null at most `retries` catalog searches are made,
\* all before the fallback; a transient failure at attempt k < retries-1 is
\* followed by a wait of exactly 2^k and then attempt k+1, there is no wait
\* after the final attempt, and when every attempt fails transiently the
\* waits are 2^0, ..., 2^(retries-2).
C3_Backoff ==
    cover_url = None =>
        /\ Cardinality(Indices(IsSearchReq)) <= retries
        /\ \A j \in Indices(IsCatalogReq), k \in Indices(IsOutsideReq) : j < k
        /\ \A j \in Indices(IsSleep) :
              /\ trace[j].at < retries - 1
              /\ trace[j].val = Pow2(trace[j].at)
              /\ j > 1 /\ IsWarn(trace[j - 1]) /\ trace[j - 1].at = trace[j].at
              /\ j < Len(trace) => IsSearchReq(trace[j + 1]) /\ trace[j + 1].at = trace[j].at + 1
        /\ \A j \in Indices(IsWarn) :
              IF trace[j].at < retries - 1
              THEN IF j < Len(trace)
                   THEN IsSleep(trace[j + 1]) /\ trace[j + 1].val = Pow2(trace[j].at)
                   ELSE fpc = "sleep"
              ELSE j < Len(trace) => ~IsSleep(trace[j + 1])
        /\ (CatalogOver /\ retries >= 1 /\ Cardinality(Indices(IsWarn)) = retries =>
              SelectSeq(trace, IsSleep) = [k \in 1..(retries - 1) |-> Slept(k - 1, Pow2(k - 1))])
C3_Witness ==
    /\ cover_url = None
    /\ retries = 3
    /\ fpc = "returned"
    /\ Cardinality(Indices(IsWarn)) = 3
    /\ Cardinality(Indices(IsSleep)) = 2

\* C4: with a key of exactly two parts, whatever fails, the call returns an
\* image (the placeholder when no other source succeeded), and the only
\* error that leaves it is the failure of the final fetch of the placeholder.
C4_OnlyPlaceholderFailureEscapes ==
    TwoParts(album) =>
        /\ (fpc = "raised" =>
              /\ ferr = "PlaceholderUnreachable"
              /\ trace[Len(trace)].what = "fallback"
              /\ trace[Len(trace)].url = PLACEHOLDER_URL
              /\ trace[Len(trace)].res # "image")
        /\ (fpc = "returned" =>
              /\ ret \in {COVER_URL, DIRECT_URL, PLACEHOLDER_URL}
              /\ \E k \in Indices(IsReq) : trace[k].url = ret /\ trace[k].res = "image"
              /\ ((\A k \in Indices(IsReq) :
                      trace[k].url # PLACEHOLDER_URL => trace[k].res \notin {"image", "found"})
                    => ret = PLACEHOLDER_URL))
        /\ (Running => ENABLED FetchNext)
C4_Witness ==
    /\ TwoParts(album)
    /\ cover_url = None
    /\ fpc = "returned"
    /\ ret = PLACEHOLDER_URL
    /\ \E k \in Indices(IsReq) : trace[k].what = "cover" /\ trace[k].res = "bad_bytes"
    /\ \E k \in Indices(IsReq) : trace[k].what = "search" /\ trace[k].res = "net_error"
    /\ \E k \in Indices(IsReq) : trace[k].what = "url" /\ trace[k].res = "net_error"

\* C5: a key whose split on "|" does not give exactly two parts (the empty
\* key included) makes fetch_image raise a malformed-key error as its first
\* step, before any request.
C5_MalformedKeyRaisesFirst ==
    album.some /\ Len(Split(album.s)) # 2 /\ fpc # "split" =>
        fpc = "raised" /\ ferr = "MalformedKey" /\ Indices(IsReq) = {}

\* C6: with cover_url = null and an empty candidate list on each of the
\* `retries` attempts, the placeholder is returned and exactly `retries`
\* diagnostic lines about catalog attempts are printed.
C6_EmptyCatalogLogsEachAttempt ==
    /\ cover_url = None
    /\ fpc = "returned"
    /\ retries >= 1
    /\ Cardinality(Indices(IsSearchReq)) = retries
    /\ \A k \in Indices(IsSearchReq) : trace[k].res = "empty"
    => /\ ret = PLACEHOLDER_URL
       /\ Cardinality(Indices(IsCatalogLine)) = retries

\* C7: within one call no request outside the catalog loop is issued more
\* than once; the placeholder URL is requested at most once.
C7_NoRepeatOutsideLoop ==
    /\ \A j, k \in Indices(IsOutsideReq) : trace[j].url = trace[k].url => j = k
    /\ Cardinality(Indices(IsPlaceholderReq)) <= 1

\* readings of a canvas
IsPaste(d) == d.op = "paste"
Pastes(c) == SelectSeq(c, IsPaste)
Drawn(op, i) == \E k \in 1..Len(canvas) : canvas[k].op = op /\ canvas[k].i = i
AllPainted ==
    \A i \in 1..Len(albums) : Drawn("paste", i) /\ Drawn("artist", i) /\ Drawn("album", i)
FatalErrors == {"MalformedKey", "PlaceholderUnreachable"}

\* C8: two completed renders of the same mapping have the same canvas
\* dimensions and paste every entry at the same coordinates, whatever the
\* network did in either of them.
C8_SamePlacement ==
    run = 2 =>
        /\ \A k \in 1..Len(Pastes(canvas)) :
              k <= Len(Pastes(prev.canvas)) /\ Pastes(canvas)[k] = Pastes(prev.canvas)[k]
        /\ (pc = "done" =>
              /\ width = prev.width
              /\ height = prev.height
              /\ Pastes(canvas) = Pastes(prev.canvas)
              /\ Len(Pastes(canvas)) = Len(albums))
C8_Witness ==
    /\ run = 2
    /\ pc = "done"
    /\ Len(albums) = 6
    /\ absorbed
    /\ ~prev.absorbed
    /\ Pastes(canvas)[6].y = 400

\* C9: the file is written exactly when every entry has been resolved and
\* painted: a failure absorbed by the resolver never stops the render, and
\* a fatal error (placeholder unreachable, malformed key) in any entry
\* aborts it with the file never written.
C9_SavedIffAllPainted ==
    /\ (saved => pc = "done" /\ AllPainted /\ err = "none")
    /\ (saved => \A i \in 1..Len(albums) : Len(Split(albums[i].key)) = 2)
    /\ (pc \in {"save", "done"} => AllPainted)
    /\ (pc = "done" => saved)
    /\ (pc = "aborted" => ~saved /\ ~AllPainted /\ err \in FatalErrors)
    /\ (pc = "fetching" /\ fpc = "raised" =>
          /\ ferr \in FatalErrors
          /\ (ferr = "PlaceholderUnreachable" =>
                /\ trace[Len(trace)].url = PLACEHOLDER_URL
                /\ trace[Len(trace)].res # "image")
          /\ (ferr = "MalformedKey" => Len(Split(albums[idx].key)) # 2))
    /\ (pc \notin {"done", "aborted", "standalone"} => ENABLED Next)
C9_Witness ==
    /\ pc = "done"
    /\ saved
    /\ absorbed
    /\ Len(albums) >= 2
    /\ \E i \in 1..Len(albums) : albums[i].url = None

\* C10: an entry whose key has no "|" (the empty key included) makes
\* create_review_image raise a malformed-key error for that entry, and its
\* caption lines are never drawn.
C10_NoPipeRaisesMalformedKey ==
    pc \notin {"standalone", "start", "title"} /\ idx >= 1 /\ ~HasPipe(albums[idx].key) =>
        /\ ~Drawn("artist", idx)
        /\ ~Drawn("album", idx)
        /\ pc \in {"fetching", "split", "aborted"}
        /\ (pc = "aborted" => err = "MalformedKey")

\* C11: the i-th entry (0-based) is pasted at x = 20 + (i mod 5)*220 and
\* y = 140 + (i div 5)*260: the cursor moves right by 220 after each entry
\* and wraps to x = 20, 260 lower, exactly after every fifth entry; the
\* entry of a one-album input is pasted at (20, 140).
C11_PasteCoordinates ==
    /\ \A k \in 1..Len(Pastes(canvas)) :
          LET p == Pastes(canvas)[k]
          IN  /\ p.i = k
              /\ p.x = 20 + ((k - 1) % 5) * 220
              /\ p.y = 140 + ((k - 1) \div 5) * 260
    /\ (pc \in {"loop", "save", "done"} =>
          /\ x = 20 + (idx % 5) * 220
          /\ y = 140 + (idx \div 5) * 260)
    /\ (Len(albums) = 1 /\ Len(Pastes(canvas)) = 1 =>
          Pastes(canvas)[1].x = 20 /\ Pastes(canvas)[1].y = 140)
C11_Witness ==
    /\ pc = "done"
    /\ Len(Pastes(canvas)) = 11
    /\ Pastes(canvas)[5].x = 900
    /\ Pastes(canvas)[5].y = 140
    /\ Pastes(canvas)[6].x = 20
    /\ Pastes(canvas)[6].y = 400
    /\ Pastes(canvas)[10].x = 900
    /\ Pastes(canvas)[11].x = 20
    /\ Pastes(canvas)[11].y = 660

\* a catalog attempt that failed for a reason other than the network or
\* HTTP: a body that is not JSON or lacks the expected fields, or cover bytes
\* that are not an image
IsNonTransientFailure(e) ==
    /\ e.ev = "req"
    /\ \/ e.what = "search" /\ e.res \in {"bad_json_req", "bad_json_val", "no_key"}
       \/ e.what = "cover" /\ e.res = "bad_bytes"
\* k is at or before the first request after j
UpToNextReq(j, k) == k > j /\ \A m \in (j + 1)..(k - 1) : ~IsReq(trace[m])

\* C12: in the catalog phase a non-transient failure of an attempt
\* (malformed or incomplete catalog response, cover bytes that do not
\* decode) causes no wait and does not end the loop: the next attempt, if
\* one remains, follows at once, and the attempt counts toward `retries`.
C12_NonTransientNoWait ==
    \A j \in Indices(IsNonTransientFailure) :
        /\ (fpc = "sleep" => \E k \in (j + 1)..Len(trace) : IsReq(trace[k]))
        /\ \A k \in (j + 1)..Len(trace) :
              UpToNextReq(j, k) =>
                  /\ ~IsSleep(trace[k])
                  /\ (IsReq(trace[k]) =>
                        IF trace[j].at + 1 < retries
                        THEN IsSearchReq(trace[k]) /\ trace[k].at = trace[j].at + 1
                        ELSE IsOutsideReq(trace[k]))

EntrySteps == <<"paste", "artist", "album">>
LastPaste == Pastes(canvas)[Len(Pastes(canvas))]

\* C14: entries are processed in collection order, one at a time: the
\* resolver is called for an entry only after the previous one has been
\* pasted and both its captions drawn, and each entry goes through
\* resolve, paste, artist caption, album caption, cursor advance.
C14_Sequential ==
    /\ \A k \in 1..Len(canvas) :
          IF k = 1 THEN canvas[k].op = "title"
          ELSE /\ canvas[k].i = ((k - 2) \div 3) + 1
               /\ canvas[k].op = EntrySteps[((k - 2) % 3) + 1]
               /\ canvas[k].op # "paste" =>
                    canvas[k].x = canvas[k - 1].x /\ canvas[k].y = canvas[k - 1].y
    /\ (fpc # "idle" /\ pc # "standalone" =>
          /\ pc = "fetching"
          /\ idx \in 1..Len(albums)
          /\ album = Some(albums[idx].key)
          /\ cover_url = albums[idx].url
          /\ Len(canvas) = 1 + 3 * (idx - 1))
    /\ (pc = "split" => Len(canvas) = 3 * idx - 1)
    /\ (pc = "artist" => Len(canvas) = 3 * idx - 1)
    /\ (pc = "album" => Len(canvas) = 3 * idx)
    /\ (pc \in {"advance", "loop", "save", "done"} => Len(canvas) = 3 * idx + 1)
    /\ (pc \in {"split", "artist", "album", "advance"} =>
          x = LastPaste.x /\ y = LastPaste.y)
    /\ (pc \in {"loop", "fetching"} /\ Len(Pastes(canvas)) >= 1 =>
          x # LastPaste.x \/ y # LastPaste.y)
C14_Witness ==
    /\ pc = "fetching"
    /\ fpc = "cover"
    /\ idx = 3
    /\ Len(canvas) = 7
    /\ canvas[7].op = "album"
    /\ canvas[7].i = 2

RECURSIVE TotalWait(_)
TotalWait(tr) ==
    IF tr = <<>> THEN 0
    ELSE (IF IsSleep(Head(tr)) THEN Head(tr).val ELSE 0) + TotalWait(Tail(tr))
IsCoverReq(e) == e.ev = "req" /\ e.what = "cover"

\* C15: every fetch_image call ends, after at most `retries` catalog
\* searches, at most `retries` cover fetches, at most two requests after
\* the catalog phase and a total wait of at most 2^(retries-1) - 1; with
\* retries = 0 the catalog phase issues no request (and no wait).
C15_Bounds ==
    /\ Cardinality(Indices(IsSearchReq)) <= retries
    /\ Cardinality(Indices(IsCoverReq)) <= retries
    /\ Cardinality(Indices(IsOutsideReq)) <= 2
    /\ (retries >= 1 => TotalWait(trace) <= Pow2(retries - 1) - 1)
    /\ (retries = 0 => Indices(IsCatalogReq) = {} /\ Indices(IsSleep) = {})
    /\ Len(trace) <= 4 * retries + 4
C16_CellsInsideAndDisjoint ==
    LET ps == Pastes(canvas)
    IN  /\ \A k \in 1..Len(ps) :
              /\ ps[k].x >= 20
              /\ ps[k].x + 200 <= width - 20
              /\ ps[k].y >= 120
              /\ ps[k].y >= 20
              /\ ps[k].y + 200 + 40 <= height - 20
        /\ \A j, k \in 1..Len(ps) :
              j # k =>
                  \/ ps[j].x + 200 <= ps[k].x
                  \/ ps[k].x + 200 <= ps[j].x
                  \/ ps[j].y + 200 + 40 <= ps[k].y
                  \/ ps[k].y + 200 + 40 <= ps[j].y
C16_Witness ==
    /\ pc = "done"
    /\ Len(Pastes(canvas)) = 11
    /\ Pastes(canvas)[11].y + 240 = height - 20
    /\ Pastes(canvas)[5].x + 200 = width - 20

IsFoundCatalogLine(e) == e.ev = "log" /\ e.what = "found_catalog"
IsFoundUrlLine(e) == e.ev = "log" /\ e.what = "found_url"
IsPlaceholderLine(e) == e.ev = "log" /\ e.what \in {"placeholder_default", "defaulting"}

\* C17: in a call that returns an image, the line reporting the source
\* names the source of the image returned: a found-on-catalog line is
\* printed only if the catalog image is returned, and no call prints both
\* a catalog-success line and a placeholder-fallback line.
C17_SuccessLineNamesSource ==
    fpc = "returned" =>
        /\ (Indices(IsFoundCatalogLine) # {} => ret = COVER_URL)
        /\ (Indices(IsFoundUrlLine) # {} => ret = cover_url /\ ret # PLACEHOLDER_URL)
        /\ (Indices(IsPlaceholderLine) # {} => ret = PLACEHOLDER_URL)
        /\ ~(Indices(IsFoundCatalogLine) # {} /\ Indices(IsPlaceholderLine) # {})

====
